---- MODULE Spec2Model ----
(***************************************************************************)
(* Model of verification/verify_scroll_sync.py: one coroutine, main(),     *)
(* run to completion by asyncio.run.  Every awaited call either returns    *)
(* or raises; nothing in the script catches an exception.  A sequence of   *)
(* process executions (runs) shares the file system and the wall clock.    *)
(***************************************************************************)
EXTENDS Integers, Sequences, FiniteSets, TLC

\* ---- bounds of the model ------------------------------------------------
MaxRuns == 3            \* process executions in one behaviour
MaxOversleep == 1       \* seconds asyncio.sleep may overshoot its delay

\* ---- literals of the script ---------------------------------------------
URL == "http://localhost:5173"
MoveX == 300
MoveY == 300
WheelDeltaX == 0
WheelDeltaY == 500
SleepSeconds == 1
ShotPath == "verification/scroll-sync.png"

MoveArgs == <<MoveX, MoveY>>

WheelArgsSwapped == <<WheelDeltaY, WheelDeltaX>>

WheelArgs == <<WheelDeltaX, WheelDeltaY>>

SleepArgs == <<SleepSeconds>>

VARIABLES
    run,        \* number of the current process execution, 1..MaxRuns
    pc,         \* the statement main() executes next
    exc,        \* the step whose exception is propagating, or "none"
    playwright, \* the async_playwright() context: "none", "started", "stopped"
    browser,    \* the Browser handle: "none", "launched", "closed"
    page,       \* the Page handle: "none", "open", "closed"
    mouse,      \* pointer position of the page
    serverUp,   \* whether something listens on localhost:5173 during this run
    clock,      \* wall clock, in seconds
    fs,         \* file system: path -> [content, mtime] for the files that exist
    fsAtStart,  \* fs as it was when the current process started
    log,        \* the calls main() made in this run, in order
    visited,    \* the states of the runner's state machine this run went through
    written,    \* every screenshot file written, over all runs, in order
    exitCode    \* exit status of the process: -1 while it runs, else 0 or 1

vars == <<run, pc, exc, playwright, browser, page, mouse, serverUp, clock,
          fs, fsAtStart, log, visited, written, exitCode>>

OldFile == [content |-> 0, mtime |-> 0]

\* The order of the statements of main(): the statement after s when s returns.
NextStepSkipSleep(s) ==
    CASE s = "enter"      -> "launch"
      [] s = "launch"     -> "new_page"
      [] s = "new_page"   -> "goto"
      [] s = "goto"       -> "move"
      [] s = "move"       -> "wheel"
      [] s = "wheel"      -> "screenshot"
      [] s = "sleep"      -> "screenshot"
      [] s = "screenshot" -> "close"
      [] s = "close"      -> "exit_ctx"
      [] s = "exit_ctx"   -> "exit"
      [] s = "exit"       -> "done"

NextStepShotFirst(s) ==
    CASE s = "enter"      -> "launch"
      [] s = "launch"     -> "new_page"
      [] s = "new_page"   -> "screenshot"
      [] s = "screenshot" -> "goto"
      [] s = "goto"       -> "move"
      [] s = "move"       -> "wheel"
      [] s = "wheel"      -> "sleep"
      [] s = "sleep"      -> "close"
      [] s = "close"      -> "exit_ctx"
      [] s = "exit_ctx"   -> "exit"
      [] s = "exit"       -> "done"

NextStepRelaunch(s) ==
    CASE s = "enter"      -> "launch"
      [] s = "launch"     -> "new_page"
      [] s = "new_page"   -> "goto"
      [] s = "goto"       -> "launch"
      [] s = "move"       -> "wheel"
      [] s = "wheel"      -> "sleep"
      [] s = "sleep"      -> "screenshot"
      [] s = "screenshot" -> "close"
      [] s = "close"      -> "exit_ctx"
      [] s = "exit_ctx"   -> "exit"
      [] s = "exit"       -> "done"

NextStepCloseEarly(s) ==
    CASE s = "enter"      -> "launch"
      [] s = "launch"     -> "new_page"
      [] s = "new_page"   -> "goto"
      [] s = "goto"       -> "move"
      [] s = "move"       -> "wheel"
      [] s = "wheel"      -> "sleep"
      [] s = "sleep"      -> "close"
      [] s = "close"      -> "screenshot"
      [] s = "screenshot" -> "exit_ctx"
      [] s = "exit_ctx"   -> "exit"
      [] s = "exit"       -> "done"

NextStep(s) ==
    CASE s = "enter"      -> "launch"
      [] s = "launch"     -> "new_page"
      [] s = "new_page"   -> "goto"
      [] s = "goto"       -> "move"
      [] s = "move"       -> "wheel"
      [] s = "wheel"      -> "sleep"
      [] s = "sleep"      -> "screenshot"
      [] s = "screenshot" -> "close"
      [] s = "close"      -> "exit_ctx"
      [] s = "exit_ctx"   -> "exit"
      [] s = "exit"       -> "done"

\* One call of main(), as it is recorded in log: the operation, its
\* arguments, whether it returned, and the handles, the pointer and the time
\* at the call.
Call(op, args, ok) ==
    [op |-> op, args |-> args, ok |-> ok,
     browser |-> browser, page |-> page, at |-> mouse, time |-> clock]

\* The call s returned: main() goes on with the next statement.
Return(s, args) ==
    /\ log' = Append(log, Call(s, args, TRUE))
    /\ pc' = NextStep(s)
    /\ exc' = exc

\* The call s raised inside the async with block: nothing catches it, the
\* block is left through __aexit__ and no later statement of the body runs.
RaiseRetry(s, args) ==
    /\ log' = Append(log, Call(s, args, FALSE))
    /\ pc' = pc
    /\ exc' = exc

Raise(s, args) ==
    /\ log' = Append(log, Call(s, args, FALSE))
    /\ pc' = "exit_ctx"
    /\ exc' = s

\* What leaving the async_playwright() block does to the Browser handle:
\* the block manages p, and no statement but browser.close() closes browser.
BrowserAfterScopeClosing(b) == IF b = "launched" THEN "closed" ELSE b

BrowserAfterScope(b) == b

\* Exit status asyncio.run(main()) gives the process.
ExitStatusAlwaysZero(e) == 0

ExitStatus(e) == IF e = "none" THEN 0 ELSE 1

\* Seconds asyncio.sleep(delay) takes: at least the delay.
SleepTimesNoDelay == 0 .. MaxOversleep

SleepTimes == SleepSeconds .. (SleepSeconds + MaxOversleep)

\* The file page.screenshot(path=...) leaves at the path: this run's capture.
ShotFile(f) == (ShotPath :> [content |-> run, mtime |-> clock])

Init ==
    /\ run = 1
    /\ pc = "enter"
    /\ exc = "none"
    /\ playwright = "none"
    /\ browser = "none"
    /\ page = "none"
    /\ mouse = <<0, 0>>
    /\ serverUp \in BOOLEAN
    /\ clock = 1
    /\ fs \in {<<>>, (ShotPath :> OldFile)}
    /\ fsAtStart = fs
    /\ log = <<>>
    /\ visited = <<"Start">>
    /\ written = <<>>
    /\ exitCode = -1

\* line 6: async with async_playwright() as p
EnterCtx ==
    /\ pc = "enter"
    /\ \/ /\ Return("enter", <<>>)
          /\ playwright' = "started"
       \/ /\ log' = Append(log, Call("enter", <<>>, FALSE))
          /\ pc' = "exit"
          /\ exc' = "enter"
          /\ UNCHANGED playwright
    /\ UNCHANGED <<run, browser, page, mouse, serverUp, clock, fs, fsAtStart,
                   visited, written, exitCode>>

\* line 7: browser = await p.chromium.launch()
Launch ==
    /\ pc = "launch"
    /\ \/ /\ Return("launch", <<>>)
          /\ browser' = "launched"
          /\ visited' = Append(visited, "Launched")
       \/ /\ Raise("launch", <<>>)
          /\ UNCHANGED <<browser, visited>>
    /\ UNCHANGED <<run, playwright, page, mouse, serverUp, clock, fs,
                   fsAtStart, written, exitCode>>

\* line 8: page = await browser.new_page()
NewPage ==
    /\ pc = "new_page"
    /\ \/ /\ Return("new_page", <<>>)
          /\ page' = "open"
          /\ mouse' = <<0, 0>>
       \/ /\ Raise("new_page", <<>>)
          /\ UNCHANGED <<page, mouse>>
    /\ UNCHANGED <<run, playwright, browser, serverUp, clock, fs, fsAtStart,
                   visited, written, exitCode>>

\* line 10: await page.goto("http://localhost:5173")
Goto ==
    /\ pc = "goto"
    /\ \/ /\ serverUp
          /\ Return("goto", <<URL>>)
          /\ visited' = Append(visited, "Navigated")
       \/ /\ Raise("goto", <<URL>>)
          /\ UNCHANGED visited
    /\ UNCHANGED <<run, playwright, browser, page, mouse, serverUp, clock, fs,
                   fsAtStart, written, exitCode>>

\* line 13: await page.mouse.move(300, 300)
MouseMove ==
    /\ pc = "move"
    /\ \/ /\ Return("move", MoveArgs)
          /\ mouse' = MoveArgs
       \/ /\ Raise("move", MoveArgs)
          /\ UNCHANGED mouse
    /\ UNCHANGED <<run, playwright, browser, page, serverUp, clock, fs,
                   fsAtStart, visited, written, exitCode>>

\* line 14: await page.mouse.wheel(0, 500)
MouseWheel ==
    /\ pc = "wheel"
    /\ \/ /\ Return("wheel", WheelArgs)
          /\ visited' = Append(visited, "InputInjected")
       \/ /\ Raise("wheel", WheelArgs)
          /\ UNCHANGED visited
    /\ UNCHANGED <<run, playwright, browser, page, mouse, serverUp, clock, fs,
                   fsAtStart, written, exitCode>>

\* line 15: await asyncio.sleep(1)
Sleep ==
    /\ pc = "sleep"
    /\ \/ /\ Return("sleep", SleepArgs)
          /\ \E d \in SleepTimes : clock' = clock + d
          /\ visited' = Append(visited, "Settled")
       \/ /\ Raise("sleep", SleepArgs)
          /\ UNCHANGED <<clock, visited>>
    /\ UNCHANGED <<run, playwright, browser, page, mouse, serverUp, fs,
                   fsAtStart, written, exitCode>>

\* line 17: await page.screenshot(path="verification/scroll-sync.png")
Screenshot ==
    /\ pc = "screenshot"
    /\ \/ /\ Return("screenshot", <<ShotPath>>)
          /\ fs' = ShotFile(fs)
          /\ written' = Append(written, [run |-> run, file |-> fs'[ShotPath]])
          /\ visited' = Append(visited, "Captured")
       \/ /\ Raise("screenshot", <<ShotPath>>)
          /\ UNCHANGED <<fs, written, visited>>
    /\ UNCHANGED <<run, playwright, browser, page, mouse, serverUp, clock,
                   fsAtStart, exitCode>>

\* line 18: await browser.close()
Close ==
    /\ pc = "close"
    /\ \/ /\ Return("close", <<>>)
          /\ browser' = "closed"
          /\ page' = IF page = "open" THEN "closed" ELSE page
          /\ visited' = Append(visited, "Closed")
       \/ /\ Raise("close", <<>>)
          /\ UNCHANGED <<browser, page, visited>>
    /\ UNCHANGED <<run, playwright, mouse, serverUp, clock, fs, fsAtStart,
                   written, exitCode>>

\* line 6, leaving the block: __aexit__ of async_playwright(), on the normal
\* path and while an exception propagates
ExitCtx ==
    /\ pc = "exit_ctx"
    /\ pc' = NextStep("exit_ctx")
    /\ playwright' = "stopped"
    /\ browser' = BrowserAfterScope(browser)
    /\ UNCHANGED <<run, exc, page, mouse, serverUp, clock, fs, fsAtStart,
                   log, visited, written, exitCode>>

\* line 21: asyncio.run(main()) returns or re-raises, and the process ends
Exit ==
    /\ pc = "exit"
    /\ pc' = NextStep("exit")
    /\ exitCode' = ExitStatus(exc)
    /\ visited' = Append(visited, "End")
    /\ UNCHANGED <<run, exc, playwright, browser, page, mouse, serverUp,
                   clock, fs, fsAtStart, log, written>>

\* lines 20-21: the script is started again, as a new process
StartRun ==
    /\ pc = "done"
    /\ run < MaxRuns
    /\ run' = run + 1
    /\ pc' = "enter"
    /\ exc' = "none"
    /\ playwright' = "none"
    /\ browser' = "none"
    /\ page' = "none"
    /\ mouse' = <<0, 0>>
    /\ serverUp' \in BOOLEAN
    /\ fsAtStart' = fs
    /\ log' = <<>>
    /\ visited' = <<"Start">>
    /\ exitCode' = -1
    /\ UNCHANGED <<clock, fs, written>>

Next ==
    \/ EnterCtx
    \/ Launch
    \/ NewPage
    \/ Goto
    \/ MouseMove
    \/ MouseWheel
    \/ Sleep
    \/ Screenshot
    \/ Close
    \/ ExitCtx
    \/ Exit
    \/ StartRun

Spec == Init /\ [][Next]_vars

TypeOK ==
    /\ run \in 1..MaxRuns
    /\ pc \in {"enter", "launch", "new_page", "goto", "move", "wheel", "sleep",
               "screenshot", "close", "exit_ctx", "exit", "done"}
    /\ playwright \in {"none", "started", "stopped"}
    /\ browser \in {"none", "launched", "closed"}
    /\ page \in {"none", "open", "closed"}
    /\ exitCode \in {-1, 0, 1}
\* ---- vocabulary of the properties ---------------------------------------
Calls(op) == {i \in DOMAIN log : log[i].op = op}

Returned(op) == \E i \in DOMAIN log : log[i].op = op /\ log[i].ok

Ops == [i \in DOMAIN log |-> log[i].op]

Done == pc = "done"

EightSteps == {"launch", "new_page", "goto", "move", "wheel", "sleep",
               "screenshot", "close"}

BeforeClose == {"new_page", "goto", "move", "wheel", "sleep", "screenshot"}

PageOps == {"goto", "move", "wheel", "screenshot"}

C2_LinearOrder ==
    (Done /\ exitCode = 0) =>
        /\ visited = <<"Start", "Launched", "Navigated", "InputInjected",
                       "Settled", "Captured", "Closed", "End">>
        /\ Ops = <<"enter", "launch", "new_page", "goto", "move", "wheel",
                   "sleep", "screenshot", "close">>

C2_Witness ==
    /\ Done
    /\ exitCode = 0
    /\ Len(visited) = 8

\* C3: when navigation fails the run ends non-zero, the screenshot step is
\* never executed and the file system is as it was at the start of the run; a
\* down server makes navigation fail; and in every run the screenshot is
\* called, and the file changed, only after goto returned.
C3_NoCaptureWithoutNavigation ==
    /\ exc = "goto" =>
          /\ Calls("screenshot") = {}
          /\ fs = fsAtStart
          /\ Done => exitCode = 1
    /\ ~serverUp => ~Returned("goto") /\ fs = fsAtStart
    /\ \A i \in Calls("screenshot") :
          \E j \in 1..(i - 1) : log[j].op = "goto" /\ log[j].ok
    /\ fs # fsAtStart => Returned("goto")

C3_Witness ==
    /\ Done
    /\ ~serverUp
    /\ exc = "goto"
    /\ exitCode = 1
    /\ ShotPath \in DOMAIN fs
    /\ fs = fsAtStart

\* C4: a failed call is the last call of its run, no step is called twice,
\* and a raised exception is never cleared: it reaches the top level and the
\* process ends non-zero.
C4_FatalNoRetry ==
    /\ \A i \in DOMAIN log : ~log[i].ok => i = Len(log)
    /\ \A op \in EightSteps \cup {"enter"} : Cardinality(Calls(op)) <= 1
    /\ exc # "none" =>
          /\ pc \in {"exit_ctx", "exit", "done"}
          /\ log # <<>>
          /\ log[Len(log)].op = exc
          /\ ~log[Len(log)].ok
    /\ (\E i \in DOMAIN log : ~log[i].ok) => exc # "none"
    /\ (Done /\ exc # "none") => exitCode = 1

C4_Witness ==
    /\ Done
    /\ exc = "screenshot"
    /\ exitCode = 1
    /\ Len(log) = 8

\* C5: the process exits 0 exactly when all eight steps returned; it exits
\* non-zero when launch, navigation or the screenshot failed; and an exit of 0
\* comes with this run's screenshot on disk.
C5_ExitZeroIffAllSteps ==
    Done =>
        /\ exitCode = 0 <=> (\A op \in EightSteps : Returned(op))
        /\ exc \in {"launch", "goto", "screenshot"} => exitCode = 1
        /\ exitCode = 0 =>
              /\ ShotPath \in DOMAIN fs
              /\ fs[ShotPath].content = run
              /\ written # <<>>
              /\ written[Len(written)].run = run

C5_Witness ==
    /\ Done
    /\ exitCode = 0
    /\ ShotPath \in DOMAIN fs
    /\ fs[ShotPath].content = run

\* C6: in a run the browser is launched at most once and new_page is called
\* at most once, and the Page is open only while its browser is launched.
C6_OneBrowserOnePage ==
    /\ Cardinality(Calls("launch")) <= 1
    /\ Cardinality(Calls("new_page")) <= 1
    /\ page = "open" => browser = "launched"
    /\ page # "none" => Returned("launch") /\ Returned("new_page")

C6_Witness ==
    /\ pc = "screenshot"
    /\ browser = "launched"
    /\ page = "open"

\* C7: every successful run overwrites the one file at the fixed path: after
\* it the file is that run's capture, no other file exists, and each written
\* file has a last-modified time strictly greater than every earlier one.
C7_OverwriteEachRun ==
    /\ \A i, j \in DOMAIN written :
          i < j => written[j].file.mtime > written[i].file.mtime
    /\ (Done /\ exitCode = 0) =>
          /\ DOMAIN fs = {ShotPath}
          /\ fs[ShotPath] = written[Len(written)].file
          /\ fs[ShotPath].content = run

C7_Witness ==
    /\ Done
    /\ exitCode = 0
    /\ Len(written) >= 2
    /\ written[Len(written)].run = run
    /\ written[Len(written) - 1].run = run - 1

C9_FixedGesture ==
    /\ \A i \in Calls("move") : log[i].args = <<300, 300>>
    /\ \A i \in Calls("wheel") :
          /\ log[i].args = <<0, 500>>
          /\ log[i].at = <<300, 300>>
          /\ i > 1 /\ log[i - 1].op = "move" /\ log[i - 1].ok
    /\ \A i \in Calls("sleep") :
          /\ log[i].args = <<1>>
          /\ i > 1 /\ log[i - 1].op = "wheel" /\ log[i - 1].ok
    /\ \A i \in Calls("screenshot") :
          /\ i > 1 /\ log[i - 1].op = "sleep" /\ log[i - 1].ok
          /\ log[i].time >= log[i - 1].time + 1
    /\ \A op \in {"move", "wheel", "sleep"} : Cardinality(Calls(op)) <= 1

C9_Witness ==
    /\ pc = "close"
    /\ Returned("wheel")
    /\ Returned("sleep")
    /\ Returned("screenshot")
    /\ mouse = <<300, 300>>

\* C10: goto, mouse.move, mouse.wheel and screenshot are called only with the
\* browser launched and the Page open; browser.close() is called at most once
\* and no call follows it.
C10_PageOpsWhileLive ==
    /\ \A i \in DOMAIN log :
          log[i].op \in PageOps =>
              log[i].browser = "launched" /\ log[i].page = "open"
    /\ Cardinality(Calls("close")) <= 1
    /\ \A i \in Calls("close") : i = Len(log) /\ log[i].browser = "launched"

C10_Witness ==
    /\ pc = "exit_ctx"
    /\ exc = "none"
    /\ browser = "closed"
    /\ Returned("close")
====
